---- MODULE Spec2Model ----
(***************************************************************************)
(* Model of the oig_cloud dashboard front end:                             *)
(*   - ApexChartsLoader (www/chart-config.js), in its two versions: the    *)
(*     "universal" loader (local path, then CDN mirrors) and the           *)
(*     "cdnonly" loader (CDN mirrors, script elements removed on failure); *)
(*   - the series merge of OigBatteryForecastCard (combineBatteryData,     *)
(*     combineSolarData, combineConsumptionData, prepareChargingData);     *)
(*   - OigCloudDashboard (init, loadAndRenderCharts, the three render      *)
(*     functions, destroy) with its refresh timer and sensor fetches, and  *)
(*     the chart specs its render functions and updateChartThemes build;   *)
(*   - HABridge (www/ha-bridge.js): the message handler of the parent      *)
(*     window and getEntityState;                                          *)
(*   - OigBatteryForecastCard: connectedCallback, loadChartsLibrary,       *)
(*     loadScript, initChart, showError and its retry button.              *)
(*                                                                         *)
(* The event loop is single threaded: every action below is one task (a    *)
(* call of load, a script's load or error event, a timer) together with    *)
(* the promise continuations (microtasks) it makes runnable.               *)
(***************************************************************************)
EXTENDS Integers, Sequences, FiniteSets, TLC

\* ------------------------------------------------------------------ bounds

\* Number of calls of ApexChartsLoader.load() in one page.
MaxCalls == 2

\* Total number of entries over the attribute buckets of one state read.
MaxPoints == 3

\* Number of runs of OigCloudDashboard.loadAndRenderCharts in one page.
MaxCycles == 3

\* Number of message events the bridge window receives.
MaxRequests == 3

\* Number of points of a timeline_data attribute, and number of calls of the
\* render functions and updateChartThemes in one run.
MaxTimeline == 2
MaxRenderOps == 3

\* ------------------------------------------------------- loader: constants

\* window.OIG_CHART_CONFIG.localPath
LocalPath == "local"

\* window.OIG_CHART_CONFIG.cdnSources, in list order
CdnSources == <<"jsdelivr", "unpkg", "cdnjs">>

Calls == 1..MaxCalls

VARIABLES
    loaderClass,   \* which ApexChartsLoader class the page runs: "universal" | "cdnonly"
    loadStrategy,  \* OIG_CHART_CONFIG.loadStrategy: "local" | "cdn" | "auto" ("none": cdnonly)
    present,       \* window.ApexCharts is defined
    scripts,       \* per call of load(): the script elements its loadScript
                   \*   invocations created, in creation order
    callState,     \* per call of load(): "idle" | "pending" | "resolved" | "rejected"
    callIdx,       \* per call: 0 = awaiting loadLocal, i >= 1 = awaiting cdnSources[i]
    callErr,       \* per call: the Error the promise of load() was rejected with
    attempted,     \* history: per call, its loadScript invocations in order, each
                   \*   [src, sync: what loadScript did at once ("pending" = element
                   \*   appended), el: index of the element in scripts[c], 0 if none]
    arrivedDuring, \* history: per call, the calls that were pending when it was made
    attrs,         \* entity.attributes of the forecast sensor: attribute name
                   \*   (as <<family, rest>>) -> value; an absent name is undefined
    now,           \* the wall clock (ms instant) when prepareSeries starts
    op,            \* "none" | "prepared": prepareSeries has run
    series,        \* the arrays returned by the four merge functions
    entryId,       \* this.entryId: urlParams.get('entry_id') ("null" = absent)
    inverterSn,    \* this.inverterSn: urlParams.get('inverter_sn')
    dashInit,      \* init(): "constructed" | "awaiting" (its first load) | "done" | "failed"
    updateInterval,\* this.updateInterval: "null" | "set" (an interval id)
    timerActive,   \* the interval set by init is running (not cleared)
    destroyed,     \* history: destroy() has been called
    cycles,        \* the runs of loadAndRenderCharts in start order, each
                   \*   [pc: the sensor whose getSensorData it awaits, or "done",
                   \*    res: chart name -> what getSensorData returned ("pending"
                   \*    before), threw (history): chart name -> where its render
                   \*    function threw, afterDestroy (history)]; res and threw
                   \*    are locals of the run, gone when it returns
    lastFinished,  \* history: the run that returned last, as [cycle, res, threw]
    charts,        \* this.charts: chart name -> index in instances[name]
                   \*   (0: undefined)
    instances,     \* chart name -> the ApexCharts instances created for it, in
                   \*   creation order: [cycle (history): the run that created
                   \*   it, live: not destroyed, afterDestroy (history)]
    region,        \* chart name -> what the dashboard last put in the chart's
                   \*   element: "blank" | "chart" | "nodata" | "unavailable"
    pageTheme,     \* document.documentElement's data-theme attribute
    chartSpecs,    \* chart name -> the options of the chart held in
                   \*   this.charts: [series, annotations, palette], NoChart
                   \*   when this.charts has no such chart
    passed,        \* history: chart name -> the options object the last
                   \*   updateChartThemes gave to chart.updateOptions
    buildError,    \* history: the last render function threw this error
    renderOp,      \* history: the last operation on the chart specs, as
                   \*   [fn, input, n: the number of operations so far]
    requests,      \* the message events the bridge window received, in order:
                   \*   [type, entityId, source, origin, state: "awaiting" (the
                   \*   handler awaits getEntityState) | "done", via]
    outbox,        \* the messages the bridge posted, in order: [to, origin,
                   \*   msg, req (history): the request it answers]
    loaderScript,  \* the chart-loader.js script element in document.head:
                   \*   "none" | "loading" | "loaded" | "failed"
    loaderDefined, \* window.ApexChartsLoader is defined
    runs,          \* the calls of loadChartsLibrary, in order: [card, pc:
                   \*   "script" (awaits loadScript) | "load" (awaits
                   \*   ApexChartsLoader.load()) | "done", retry (history: made
                   \*   by the retry button), call: its call of load() (0:
                   \*   none), loaderAtResolve (history): what
                   \*   window.ApexChartsLoader was when its loadScript
                   \*   resolved, outcome (history): how it ended]
    view,          \* card -> what its #chart element shows: "none" | "blank" |
                   \*   "loading" | "error" | "chart"
    cardCharts,    \* card -> the ApexCharts instances initChart created, in
                   \*   order (this.chart is the last): [live: not destroyed,
                   \*   series: updateSeries was called on it]
    hass           \* card -> this._hass is set

loaderVars == <<loaderClass, loadStrategy, present, scripts, callState, callIdx,
                callErr, attempted, arrivedDuring>>
mergeVars == <<attrs, now, op, series>>
dashVars == <<entryId, inverterSn, dashInit, updateInterval, timerActive,
              destroyed, cycles, lastFinished, charts, instances, region>>
renderVars == <<pageTheme, chartSpecs, passed, buildError, renderOp>>
bridgeVars == <<requests, outbox>>
cardVars == <<loaderScript, loaderDefined, runs, view, cardCharts, hass>>
vars == <<loaderClass, loadStrategy, present, scripts, callState, callIdx,
          callErr, attempted, arrivedDuring, attrs, now, op, series,
          entryId, inverterSn, dashInit, updateInterval, timerActive,
          destroyed, cycles, lastFinished, charts, instances, region,
          pageTheme, chartSpecs, passed, buildError, renderOp,
          requests, outbox,
          loaderScript, loaderDefined, runs, view, cardCharts, hass>>

\* The chart names of the dashboard, in the order loadAndRenderCharts
\* fetches their sensors.
ChartNames == {"battery", "solar", "prices"}

\* The locals of a run of loadAndRenderCharts before its first await returns.
NoResults == [n \in ChartNames |-> "pending"]
NoThrows == [n \in ChartNames |-> "none"]
NoneFinished == [cycle |-> 0, res |-> NoResults, threw |-> NoThrows]

\* The cards of a page.
MaxCards == 2
Cards == 1..MaxCards

\* this.charts[name] is undefined; updateOptions was never called.
NoChart == [series |-> <<>>, annotations |-> <<>>, palette |-> "undefined"]
NotPassed == [keys |-> {}, palette |-> "none", theme |-> "none"]

\* No chart spec built, no message received, no card connected.
RenderIdle ==
    /\ pageTheme = "light"
    /\ chartSpecs = [n \in ChartNames |-> NoChart]
    /\ passed = [n \in ChartNames |-> NotPassed]
    /\ buildError = "none"
    /\ renderOp = [fn |-> "none", input |-> <<>>, n |-> 0]

BridgeIdle ==
    /\ requests = <<>>
    /\ outbox = <<>>

CardIdle ==
    /\ loaderScript = "none"
    /\ loaderDefined = FALSE
    /\ runs = <<>>
    /\ view = [k \in Cards |-> "none"]
    /\ cardCharts = [k \in Cards |-> <<>>]
    /\ hass = [k \in Cards |-> FALSE]

\* The dashboard before its constructor has run for a page with parameters.
DashIdle ==
    /\ entryId = "null"
    /\ inverterSn = "null"
    /\ dashInit = "constructed"
    /\ updateInterval = "null"
    /\ timerActive = FALSE
    /\ destroyed = FALSE
    /\ cycles = <<>>
    /\ lastFinished = NoneFinished
    /\ charts = [n \in ChartNames |-> 0]
    /\ instances = [n \in ChartNames |-> <<>>]
    /\ region = [n \in ChartNames |-> "blank"]

\* ------------------------------------------------------- loader: loadScript

NoError == [message |-> "none", reasons |-> <<>>]

\* document.createElement('script') with src, timer armed, appended to head.
\* fetch: the browser's fetch of the element ("loading" | "done"); promise:
\* the promise returned by loadScript; timer: the setTimeout is armed;
\* inDoc: the element is in document.head.
NewScriptNoTimer(src, c) ==
    [src |-> src, owner |-> c, fetch |-> "loading", promise |-> "pending",
     timer |-> FALSE, inDoc |-> TRUE]

NewScript(src, c) ==
    [src |-> src, owner |-> c, fetch |-> "loading", promise |-> "pending",
     timer |-> TRUE, inDoc |-> TRUE]

\* document.querySelector(`script[src="${src}"]`)
QuerySelector(ss, src) ==
    \E d \in DOMAIN ss : \E i \in 1..Len(ss[d]) :
        ss[d][i].inDoc /\ ss[d][i].src = src

\* script.remove() of the cdnonly loader; the universal loader never removes.
RemoveOnFailure(sc) ==
    IF loaderClass = "cdnonly" THEN [sc EXCEPT !.inDoc = FALSE] ELSE sc

\* The synchronous part of loadScript(src), called by load call c while
\* window.ApexCharts has the value lib.
LoadScript(ss, src, c, lib) ==
    IF loaderClass = "cdnonly" /\ QuerySelector(ss, src)
    THEN [scripts |-> ss,
          outcome |-> IF lib THEN "resolved" ELSE "rejected",
          el      |-> 0]
    ELSE [scripts |-> [ss EXCEPT ![c] = Append(@, NewScript(src, c))],
          outcome |-> "pending",
          el      |-> Len(ss[c]) + 1]

\* The history entry of one loadScript invocation.
Attempt(src, r) == [src |-> src, sync |-> r.outcome, el |-> r.el]

\* `throw new Error('Nepodařilo se načíst Apex Charts z žádného CDN zdroje')`:
\* an Error built from a message alone.
ExhaustedError == [message |-> "no-cdn-source", reasons |-> <<>>]

\* The Error of a single loadScript, propagated unchanged by loadLocal.
ScriptErrorOf(reason) == [message |-> reason.kind, reasons |-> <<reason>>]

\* The loader state the operators below transform.
LoaderState ==
    [scripts |-> scripts, callState |-> callState, callIdx |-> callIdx,
     callErr |-> callErr, attempted |-> attempted]

\* loadLocal(): loadScript(localPath); universal loader only.
LoadLocal(S, c, lib) ==
    LET r == LoadScript(S.scripts, LocalPath, c, lib)
    IN [S EXCEPT !.scripts = r.scripts,
                 !.callIdx[c] = 0,
                 !.attempted[c] = Append(@, Attempt(LocalPath, r))]

\* The for loop over cdnSources, entered at index i: loadCDN of the universal
\* loader and the loop of load of the cdnonly loader.  A loadScript that
\* rejects at once (cdnonly: element already in the document) is caught and
\* the loop goes on in the same microtask run.
RECURSIVE LoadCDN(_, _, _, _)
LoadCDN(S, c, i, lib) ==
    IF i > Len(CdnSources)
    THEN [S EXCEPT !.callState[c] = "rejected", !.callErr[c] = ExhaustedError]
    ELSE LET r  == LoadScript(S.scripts, CdnSources[i], c, lib)
             S1 == [S EXCEPT !.scripts = r.scripts,
                             !.callIdx[c] = i,
                             !.attempted[c] = Append(@, Attempt(CdnSources[i], r))]
         IN  CASE r.outcome = "pending"  -> S1
               [] r.outcome = "resolved" -> [S1 EXCEPT !.callState[c] = "resolved"]
               [] OTHER                  -> LoadCDN(S1, c, i + 1, lib)

\* The continuation of load call c after the loadScript promise it awaits
\* has been rejected with `reason`.
OnRejectedSkip(S, c, reason, lib) ==
    IF loaderClass = "universal" /\ S.callIdx[c] = 0
    THEN IF loadStrategy = "local"
         THEN [S EXCEPT !.callState[c] = "rejected",
                        !.callErr[c] = ScriptErrorOf(reason)]
         ELSE LoadCDN(S, c, 2, lib)
    ELSE LoadCDN(S, c, S.callIdx[c] + 2, lib)

OnRejected(S, c, reason, lib) ==
    IF loaderClass = "universal" /\ S.callIdx[c] = 0
    THEN IF loadStrategy = "local"
         THEN [S EXCEPT !.callState[c] = "rejected",
                        !.callErr[c] = ScriptErrorOf(reason)]
         ELSE LoadCDN(S, c, 1, lib)
    ELSE LoadCDN(S, c, S.callIdx[c] + 1, lib)

\* The continuation of load call c after the loadScript promise it awaits
\* has been resolved.
OnResolved(S, c) == [S EXCEPT !.callState[c] = "resolved"]

\* `if (window.ApexCharts) return Promise.resolve();`
AlreadyLoadedNever(lib) == FALSE
AlreadyLoaded(lib) == lib

\* The body of load() after the presence check: dispatch on the strategy.
StartLoad(S, c, lib) ==
    LET S0 == [S EXCEPT !.callState[c] = "pending"]
    IN  IF loaderClass = "universal" /\ loadStrategy \in {"local", "auto"}
        THEN LoadLocal(S0, c, lib)
        ELSE LoadCDN(S0, c, 1, lib)

Commit(S) ==
    /\ scripts' = S.scripts
    /\ callState' = S.callState
    /\ callIdx' = S.callIdx
    /\ callErr' = S.callErr
    /\ attempted' = S.attempted

\* A promise settles once: resolve/reject of a settled promise do nothing.
SettleRejected(S, c, s, reason, lib) ==
    IF S.scripts[c][s].promise = "pending"
    THEN OnRejected([S EXCEPT !.scripts[c][s].promise = "rejected"], c, reason, lib)
    ELSE S

SettleResolved(S, c, s) ==
    IF S.scripts[c][s].promise = "pending"
    THEN OnResolved([S EXCEPT !.scripts[c][s].promise = "resolved"], c)
    ELSE S

\* ---------------------------------------------------------- loader: actions

\* ApexChartsLoader.load(), call c.  Calls are numbered in the order in
\* which they are made.
LoadStep(c) ==
    /\ callState[c] = "idle"
    /\ \A d \in Calls : d < c => callState[d] # "idle"
    /\ IF AlreadyLoaded(present)
       THEN Commit([LoaderState EXCEPT !.callState[c] = "resolved"])
       ELSE Commit(StartLoad(LoaderState, c, present))
    /\ arrivedDuring' = [arrivedDuring EXCEPT
                            ![c] = {d \in Calls : callState[d] = "pending"}]
    /\ UNCHANGED <<loaderClass, loadStrategy, present>>

Load(c) ==
    /\ LoadStep(c)
    /\ UNCHANGED <<mergeVars, dashVars, renderVars, bridgeVars, cardVars>>

\* The fetch of element s of call c completes and the script runs; `defines`
\* tells whether the fetched file defines window.ApexCharts.  Then
\* script.onload runs.  (Removing a script element from the document does
\* not cancel its fetch or its execution, and the handlers stay attached.)
\* After the promise has settled (a timeout came first) the handler's
\* resolve/reject do nothing, so the event is modelled only where running the
\* script changes something: it defines the library that was absent.
ScriptOnLoadStep(c, s, defines) ==
    /\ s \in 1..Len(scripts[c])
    /\ scripts[c][s].fetch = "loading"
    /\ scripts[c][s].promise = "pending" \/ (defines /\ ~present)
    /\ LET lib == present \/ defines
           sc  == [scripts[c][s] EXCEPT !.fetch = "done", !.timer = FALSE]
           S0  == [LoaderState EXCEPT
                     !.scripts[c][s] = IF lib THEN sc ELSE RemoveOnFailure(sc)]
       IN  /\ present' = lib
           /\ IF lib
              THEN Commit(SettleResolved(S0, c, s))
              ELSE Commit(SettleRejected(S0, c, s, [src |-> sc.src, kind |-> "nolib"], lib))
    /\ UNCHANGED <<loaderClass, loadStrategy, arrivedDuring>>

ScriptOnLoad(c, s, defines) ==
    /\ ScriptOnLoadStep(c, s, defines)
    /\ UNCHANGED <<mergeVars, dashVars, renderVars, bridgeVars, cardVars>>

\* The fetch of element s of call c fails: script.onerror.  (After a timeout
\* the handler changes nothing: the event is modelled while the promise is
\* pending.)
ScriptOnErrorStep(c, s) ==
    /\ s \in 1..Len(scripts[c])
    /\ scripts[c][s].fetch = "loading"
    /\ scripts[c][s].promise = "pending"
    /\ LET sc == [scripts[c][s] EXCEPT !.fetch = "done", !.timer = FALSE]
           S0 == [LoaderState EXCEPT !.scripts[c][s] = RemoveOnFailure(sc)]
       IN  Commit(SettleRejected(S0, c, s, [src |-> sc.src, kind |-> "error"], present))
    /\ UNCHANGED <<loaderClass, loadStrategy, present, arrivedDuring>>

ScriptOnError(c, s) ==
    /\ ScriptOnErrorStep(c, s)
    /\ UNCHANGED <<mergeVars, dashVars, renderVars, bridgeVars, cardVars>>

\* The timer of element s of call c fires after loadTimeout.
ScriptTimeoutStep(c, s) ==
    /\ s \in 1..Len(scripts[c])
    /\ scripts[c][s].timer
    /\ LET sc == [scripts[c][s] EXCEPT !.timer = FALSE]
           S0 == [LoaderState EXCEPT !.scripts[c][s] = RemoveOnFailure(sc)]
       IN  Commit(SettleRejected(S0, c, s, [src |-> sc.src, kind |-> "timeout"], present))
    /\ UNCHANGED <<loaderClass, loadStrategy, present, arrivedDuring>>

ScriptTimeout(c, s) ==
    /\ ScriptTimeoutStep(c, s)
    /\ UNCHANGED <<mergeVars, dashVars, renderVars, bridgeVars, cardVars>>

\* ------------------------------------------------------ loader: specification

MergeIdle ==
    /\ attrs = <<>>
    /\ now = 0
    /\ op = "none"
    /\ series = <<>>

Init ==
    /\ \/ loaderClass = "universal" /\ loadStrategy \in {"local", "cdn", "auto"}
       \/ loaderClass = "cdnonly" /\ loadStrategy = "none"
    /\ present \in BOOLEAN
    /\ scripts = [c \in Calls |-> <<>>]
    /\ callState = [c \in Calls |-> "idle"]
    /\ callIdx = [c \in Calls |-> 0]
    /\ callErr = [c \in Calls |-> NoError]
    /\ attempted = [c \in Calls |-> <<>>]
    /\ arrivedDuring = [c \in Calls |-> {}]
    /\ MergeIdle
    /\ DashIdle
    /\ RenderIdle
    /\ BridgeIdle
    /\ CardIdle

\* A call creates at most one element per source.
Elements == 1..(Len(CdnSources) + 1)

Next ==
    \/ \E c \in Calls : Load(c)
    \/ \E c \in Calls, s \in Elements, defines \in BOOLEAN : ScriptOnLoad(c, s, defines)
    \/ \E c \in Calls, s \in Elements : ScriptOnError(c, s)
    \/ \E c \in Calls, s \in Elements : ScriptTimeout(c, s)

Spec == Init /\ [][Next]_vars

\* Timers fire: a timer armed by setTimeout and not cleared runs its callback.
LiveSpec == Spec /\ WF_vars(\E c \in Calls, s \in Elements : ScriptTimeout(c, s))

\* ------------------------------------------------------------- series merge

\* Timestamp strings used as bucket keys, and new Date(key).getTime(): the
\* instant the text denotes.  Two different texts can denote one instant
\* (another UTC offset).  Instants are counted in hours from a base day.
Keys == {"01:00Z", "03:00+02:00", "02:00Z", "03:00Z"}

DateParse(k) ==
    CASE k = "01:00Z"      -> 1
      [] k = "03:00+02:00" -> 1
      [] k = "02:00Z"      -> 2
      [] k = "03:00Z"      -> 3

\* Sensor readings (consumption can arrive signed).
Values == {-1, 2}

Metrics == {"battery", "solar", "consumption"}
BucketNames == {"yesterday_actual", "today_actual", "today_predicted",
                "tomorrow_predicted"}
ChargingNames == {"hours_today", "hours_tomorrow"}

\* `attrs.<name> || {}` and `attrs.<name> || []`
BucketOrSample(a, family, name) ==
    IF <<family, name>> \in DOMAIN a THEN a[<<family, name>>]
    ELSE IF family = "charging" THEN <<"02:00Z">> ELSE << <<"02:00Z", 2>> >>

Bucket(a, family, name) ==
    IF <<family, name>> \in DOMAIN a THEN a[<<family, name>>] ELSE <<>>

\* `attrs.battery_config?.max_capacity_kwh || 10`
DefaultMaxCapacity == 10
MaxCapacity(a) ==
    IF <<"battery_config", "max_capacity_kwh">> \in DOMAIN a
    THEN a[<<"battery_config", "max_capacity_kwh">>]
    ELSE DefaultMaxCapacity

\* Object.entries of a bucket: its <<key, value>> pairs in insertion order.
\* A data point {x, y}; `kind` is history (the code does not store it): the
\* kind of bucket the point was read from.
Point(e, kind) == [x |-> DateParse(e[1]), y |-> e[2], kind |-> kind]

\* forEach(... data.push({x: new Date(timestamp).getTime(), y: value}))
PushAll(data, entries, kind) ==
    data \o [j \in 1..Len(entries) |-> Point(entries[j], kind)]

\* forEach(... if (time >= new Date()) data.push(...)): the j-th iteration
\* reads the clock anew; clk[j] is what that read returns.
RECURSIVE PushFromNowAt(_, _, _, _, _)
PushFromNowAt(data, entries, kind, clk, j) ==
    IF j > Len(entries) THEN data
    ELSE PushFromNowAt(
            IF DateParse(entries[j][1]) >= clk[j]
            THEN Append(data, Point(entries[j], kind))
            ELSE data,
            entries, kind, clk, j + 1)

PushFromNow(data, entries, kind, clk) == PushFromNowAt(data, entries, kind, clk, 1)

\* The object spread {...a, ...b}: the keys of a in their order, with the
\* value b gives them where b has the key, then the other keys of b.
HasKey(b, k) == \E j \in 1..Len(b) : b[j][1] = k
ValueOf(b, k) == b[CHOOSE j \in 1..Len(b) : b[j][1] = k][2]
Spread(a, b) ==
    [j \in 1..Len(a) |->
        IF HasKey(b, a[j][1]) THEN <<a[j][1], ValueOf(b, a[j][1])>> ELSE a[j]]
    \o SelectSeq(b, LAMBDA e : ~HasKey(a, e[1]))

\* data.sort((a, b) => a.x - b.x): Array.prototype.sort is stable; modelled
\* as an insertion sort that puts a point after the points with an equal x.
RECURSIVE InsertByXBeforeEqual(_, _)
InsertByXBeforeEqual(sorted, p) ==
    IF sorted = <<>> THEN <<p>>
    ELSE IF sorted[Len(sorted)].x < p.x THEN Append(sorted, p)
    ELSE Append(InsertByXBeforeEqual(SubSeq(sorted, 1, Len(sorted) - 1), p),
                sorted[Len(sorted)])

RECURSIVE InsertByX(_, _)
InsertByX(sorted, p) ==
    IF sorted = <<>> THEN <<p>>
    ELSE IF sorted[Len(sorted)].x <= p.x THEN Append(sorted, p)
    ELSE Append(InsertByX(SubSeq(sorted, 1, Len(sorted) - 1), p),
                sorted[Len(sorted)])

SortByXNot(data) == data

RECURSIVE SortByX(_)
SortByX(data) ==
    IF data = <<>> THEN <<>>
    ELSE InsertByX(SortByX(SubSeq(data, 1, Len(data) - 1)), data[Len(data)])

\* combineBatteryData(attrs)
CombineBatteryData(a, clk) ==
    LET d1 == PushAll(<<>>, Bucket(a, "battery", "yesterday_actual"), "actual")
        d2 == PushAll(d1, Bucket(a, "battery", "today_actual"), "actual")
        d3 == PushFromNow(d2, Bucket(a, "battery", "today_predicted"), "predicted", clk)
        d4 == PushAll(d3, Bucket(a, "battery", "tomorrow_predicted"), "predicted")
    IN  SortByX(d4)

\* combineSolarData(attrs)
CombineSolarData(a, clk) ==
    LET d1 == PushAll(<<>>,
                      Spread(Bucket(a, "solar", "yesterday_actual"),
                             Bucket(a, "solar", "today_actual")),
                      "actual")
        d2 == PushFromNow(d1,
                          Spread(Bucket(a, "solar", "today_predicted"),
                                 Bucket(a, "solar", "tomorrow_predicted")),
                          "predicted", clk)
    IN  SortByX(d2)

\* Math.abs(value)
Signed(v) == v
Abs(v) == IF v < 0 THEN -v ELSE v
AbsAll(entries) == [j \in 1..Len(entries) |-> <<entries[j][1], Abs(entries[j][2])>>]

\* combineConsumptionData(attrs)
CombineConsumptionData(a, clk) ==
    LET d1 == PushAll(<<>>,
                      AbsAll(Spread(Bucket(a, "consumption", "yesterday_actual"),
                                    Bucket(a, "consumption", "today_actual"))),
                      "actual")
        d2 == PushFromNow(d1,
                          AbsAll(Spread(Bucket(a, "consumption", "today_predicted"),
                                        Bucket(a, "consumption", "tomorrow_predicted"))),
                          "predicted", clk)
    IN  SortByX(d2)

\* prepareChargingData(attrs); y = maxCapacity * 0.9 is kept in tenths of a kWh.
PrepareChargingData(a) ==
    LET hours == Bucket(a, "charging", "hours_today")
                 \o Bucket(a, "charging", "hours_tomorrow")
    IN  SortByX([j \in 1..Len(hours) |->
                    [x |-> DateParse(hours[j]), y |-> MaxCapacity(a) * 9,
                     kind |-> "charging"]])

\* prepareSeries(attrs): the four merges, in this order.  The clock reads of
\* the three combine functions are clkB, clkS and clkC.
PrepareSeriesData(a, clkB, clkS, clkC) ==
    [battery     |-> CombineBatteryData(a, clkB),
     solar       |-> CombineSolarData(a, clkS),
     consumption |-> CombineConsumptionData(a, clkC),
     charging    |-> PrepareChargingData(a)]

\* ---------------------------------------------------- series merge: inputs

\* The instant at which prepareSeries starts (instants are relative).
Now == 2

\* The number of `new Date()` reads of the three combine functions: one per
\* entry of the predicted buckets they filter.
ReadsBattery(a) == Len(Bucket(a, "battery", "today_predicted"))
ReadsSolar(a) ==
    Len(Spread(Bucket(a, "solar", "today_predicted"),
               Bucket(a, "solar", "tomorrow_predicted")))
ReadsConsumption(a) ==
    Len(Spread(Bucket(a, "consumption", "today_predicted"),
               Bucket(a, "consumption", "tomorrow_predicted")))

\* What n successive reads return while prepareSeries runs: the clock stands
\* still or moves on by one hour after the t-th read.
ClockReads(n0, n) ==
    {[j \in 1..n |-> IF j > t THEN n0 + 1 ELSE n0] : t \in 0..n}
ReadsFrom(g, first, n) == [j \in 1..n |-> g[first + j]]

\* A bucket is a JS object: its keys are distinct.
DistinctKeys(b) == \A i, j \in 1..Len(b) : i # j => b[i][1] # b[j][1]

\* The buckets (objects key -> reading) and the charging-hour arrays of at
\* most n entries.
ObjectsUpTo(n) ==
    {b \in UNION {[1..k -> Keys \X Values] : k \in 0..n} : DistinctKeys(b)}
ArraysUpTo(n) == UNION {[1..k -> Keys] : k \in 0..n}

\* The attributes of one state read.  The buckets of the three metrics hold
\* the same entries (q: bucket name -> entries, h: array name -> hours); with
\* omitEmpty an empty bucket or array is undefined and battery_config is
\* absent.
MakeAttrs(q, h, omitEmpty) ==
    LET names == {<<m, b>> \in Metrics \X BucketNames : ~omitEmpty \/ q[b] # <<>>}
                 \cup {<<"charging", c>> : c \in
                         {c \in ChargingNames : ~omitEmpty \/ h[c] # <<>>}}
                 \cup (IF omitEmpty THEN {}
                       ELSE {<<"battery_config", "max_capacity_kwh">>})
    IN  [nm \in names |->
            IF nm[1] \in Metrics THEN q[nm[2]]
            ELSE IF nm[1] = "charging" THEN h[nm[2]]
            ELSE 15]

LoaderIdle ==
    /\ loaderClass = "cdnonly"
    /\ loadStrategy = "none"
    /\ present = TRUE
    /\ scripts = [c \in Calls |-> <<>>]
    /\ callState = [c \in Calls |-> "idle"]
    /\ callIdx = [c \in Calls |-> 0]
    /\ callErr = [c \in Calls |-> NoError]
    /\ attempted = [c \in Calls |-> <<>>]
    /\ arrivedDuring = [c \in Calls |-> {}]

NoSeries == [battery |-> <<>>, solar |-> <<>>, consumption |-> <<>>, charging |-> <<>>]

MergeInit ==
    /\ LoaderIdle
    /\ DashIdle
    /\ RenderIdle
    /\ BridgeIdle
    /\ CardIdle
    /\ \E ya \in ObjectsUpTo(MaxPoints) :
       \E ta \in ObjectsUpTo(MaxPoints - Len(ya)) :
       \E tp \in ObjectsUpTo(MaxPoints - Len(ya) - Len(ta)) :
       \E mp \in ObjectsUpTo(MaxPoints - Len(ya) - Len(ta) - Len(tp)) :
       \E ht \in ArraysUpTo(MaxPoints - Len(ya) - Len(ta) - Len(tp) - Len(mp)) :
       \E hm \in ArraysUpTo(MaxPoints - Len(ya) - Len(ta) - Len(tp) - Len(mp) - Len(ht)) :
       \E omitEmpty \in BOOLEAN :
          attrs = MakeAttrs(
                     [b \in BucketNames |->
                        CASE b = "yesterday_actual" -> ya
                          [] b = "today_actual" -> ta
                          [] b = "today_predicted" -> tp
                          [] b = "tomorrow_predicted" -> mp],
                     [c \in ChargingNames |->
                        IF c = "hours_today" THEN ht ELSE hm],
                     omitEmpty)
    /\ now = Now
    /\ op = "none"
    /\ series = NoSeries

\* updateChart() -> prepareSeries(attrs) for the current state of the entity.
PrepareSeries ==
    /\ op = "none"
    /\ \E g \in ClockReads(now, ReadsBattery(attrs) + ReadsSolar(attrs)
                                     + ReadsConsumption(attrs)) :
          series' = PrepareSeriesData(
                       attrs,
                       ReadsFrom(g, 0, ReadsBattery(attrs)),
                       ReadsFrom(g, ReadsBattery(attrs), ReadsSolar(attrs)),
                       ReadsFrom(g, ReadsBattery(attrs) + ReadsSolar(attrs),
                                 ReadsConsumption(attrs)))
    /\ op' = "prepared"
    /\ UNCHANGED <<attrs, now, loaderVars, dashVars, renderVars, bridgeVars, cardVars>>

MergeNext == PrepareSeries

MergeSpec == MergeInit /\ [][MergeNext]_vars

\* ------------------------------------------------------------ loader: claims

\* The sources a call of load() is configured to try, in list order.
ConfiguredSources ==
    IF loaderClass = "cdnonly" \/ loadStrategy = "cdn" THEN CdnSources
    ELSE IF loadStrategy = "local" THEN <<LocalPath>>
    ELSE <<LocalPath>> \o CdnSources

Settled(c) == callState[c] \in {"resolved", "rejected"}

\* The attempt of call c has failed: loadScript rejected at once, or its
\* promise was rejected by the error event, the load event without library,
\* or the timer.
AttemptFailed(c, a) ==
    \/ a.sync = "rejected"
    \/ a.el > 0 /\ scripts[c][a.el].promise = "rejected"

AttemptSucceeded(c, a) ==
    \/ a.sync = "resolved"
    \/ a.el > 0 /\ scripts[c][a.el].promise = "resolved"

\* The element's timer fired while its fetch was still under way.
TimedOut(sc) ==
    /\ sc.fetch = "loading"
    /\ ~sc.timer
    /\ sc.promise = "rejected"

\* Every script element ever created, as <<call, index>>.
AllScripts == {<<c, s>> \in Calls \X Elements : s <= Len(scripts[c])}

\* C1: the attempts of every call of load follow the configured source list
\* in order, one attempt per source (they form a prefix of the list), every
\* attempt but the last one made has failed or timed out (so the next source
\* is never started before the current one failed, and nothing is started
\* after a success), and the elements created by the call are those attempts.
C1_OrderedAttempts ==
    \A c \in Calls :
        /\ Len(attempted[c]) <= Len(ConfiguredSources)
        /\ \A k \in 1..Len(attempted[c]) :
              /\ attempted[c][k].src = ConfiguredSources[k]
              /\ k < Len(attempted[c]) => AttemptFailed(c, attempted[c][k])
              /\ AttemptSucceeded(c, attempted[c][k]) => k = Len(attempted[c])
        /\ \A s \in 1..Len(scripts[c]) :
              \E k \in 1..Len(attempted[c]) :
                 attempted[c][k].el = s /\ attempted[c][k].src = scripts[c][s].src

\* C1 witness: a call that went through all four sources of the 'auto'
\* strategy, local path first, and succeeded on the last CDN mirror.
C1_Witness ==
    \E c \in Calls :
        /\ loadStrategy = "auto"
        /\ callState[c] = "resolved"
        /\ Len(attempted[c]) = 4
        /\ attempted[c][1].src = LocalPath
        /\ AttemptSucceeded(c, attempted[c][4])

\* C2: every call of load eventually settles (from some point on no call is
\* pending, a settled call staying settled); a source that never
\* responds ends at its timeout with the next source attempted (or the call
\* rejected when it was the last); and a call one of whose attempts loaded
\* the library is resolved.
C2_LoadSettles ==
    /\ <>[](\A c \in Calls : callState[c] # "pending")
    /\ [][\A c \in Calls : \A s \in 1..Len(scripts[c]) :
            (scripts[c][s].timer /\ ~scripts'[c][s].timer
                /\ scripts'[c][s].fetch = "loading")
            => /\ scripts'[c][s].promise = "rejected"
               /\ \/ Len(attempted'[c]) > Len(attempted[c])
                  \/ callState'[c] = "rejected"]_vars
    /\ [](\A c \in Calls : \A s \in 1..Len(scripts[c]) :
            scripts[c][s].promise = "resolved" => callState[c] = "resolved")

\* C2 witness: a source never responded and timed out, and the call was
\* resolved by a later source.
C2_Witness ==
    \E c \in Calls : \E s, u \in 1..Len(scripts[c]) :
        /\ TimedOut(scripts[c][s])
        /\ callState[c] = "resolved"
        /\ u > s
        /\ scripts[c][u].promise = "resolved"

\* C3: a call of load made while the library is present resolves in that
\* step and leaves the script elements (with their timers and fetches) and
\* the presence of the library unchanged.
C3_PresentIsNoOp ==
    [][\A c \in Calls :
          (callState[c] = "idle" /\ callState'[c] # "idle" /\ present)
          => /\ callState'[c] = "resolved"
             /\ scripts' = scripts
             /\ present' = present
             /\ attempted'[c] = <<>>]_vars

\* C3 witness: a call made after an earlier call had loaded the library
\* returned without an attempt.
C3_Witness ==
    \E c, d \in Calls :
        /\ present
        /\ d < c
        /\ Len(attempted[d]) > 0 /\ callState[d] = "resolved"
        /\ callState[c] = "resolved" /\ attempted[c] = <<>>

\* C4 (as claimed): no two script elements with the same src are ever
\* appended to the document.
C4_NoDuplicateFetch ==
    \A x, y \in AllScripts :
        x # y => scripts[x[1]][x[2]].src # scripts[y[1]][y[2]].src

\* C5 (as claimed): a call made while another call was pending ends as that
\* call ends, and no call takes a source whose script is still loading for a
\* failed one.
C5_SharedOutcome ==
    /\ \A c \in Calls : \A d \in arrivedDuring[c] :
          (Settled(c) /\ Settled(d)) => callState[c] = callState[d]
    /\ \A c \in Calls : \A k \in 1..Len(attempted[c]) :
          attempted[c][k].sync # "rejected"

\* C6 (as claimed): a rejected call carries one failure reason per attempted
\* source, in source order.
C6_AggregateReasons ==
    \A c \in Calls :
        callState[c] = "rejected" =>
            /\ Len(callErr[c].reasons) = Len(attempted[c])
            /\ \A k \in 1..Len(attempted[c]) :
                  callErr[c].reasons[k].src = attempted[c][k].src

\* C7 (as claimed): the element of a failed or timed out attempt is no longer
\* in the document, and the library is only ever made present by a script
\* whose attempt succeeded: where load had to create an element (the library
\* was absent) and the library is present now, some attempt has succeeded.
C7_AbandonedRemoved ==
    /\ \A x \in AllScripts :
          scripts[x[1]][x[2]].promise = "rejected" => ~scripts[x[1]][x[2]].inDoc
    /\ (present /\ AllScripts # {}) =>
          \E x \in AllScripts : scripts[x[1]][x[2]].promise = "resolved"

\* ------------------------------------------------------ series merge: claims

\* C8 (as claimed): no point read from a predicted bucket with an instant
\* strictly before now is in the merged series of any metric.
C8_NoStalePrediction ==
    op = "prepared" =>
        \A m \in Metrics : \A i \in 1..Len(series[m]) :
            series[m][i].kind = "predicted" => series[m][i].x >= now

Ascending(data) == \A i, j \in 1..Len(data) : i < j => data[i].x <= data[j].x

Shown(m, v) == IF m = "consumption" THEN Abs(v) ELSE v
PairsOf(m, b, x, y) ==
    Cardinality({j \in 1..Len(b) : DateParse(b[j][1]) = x /\ Shown(m, b[j][2]) = y})
PointsOf(data, x, y, kind) ==
    Cardinality({i \in 1..Len(data) :
                    data[i].x = x /\ data[i].y = y /\ data[i].kind = kind})
Instants == {DateParse(k) : k \in Keys}
Readings == Values \cup {Abs(v) : v \in Values}

\* C11 (as claimed): the merged series of a metric holds one point for each
\* key/value pair of its two actual buckets, and one for each pair of its two
\* predicted buckets whose instant is after every clock read of the merge.
C11_NoPairLost ==
    op = "prepared" =>
        \A m \in Metrics : \A x \in Instants : \A y \in Readings :
            /\ PointsOf(series[m], x, y, "actual")
                  = PairsOf(m, Bucket(attrs, m, "yesterday_actual"), x, y)
                    + PairsOf(m, Bucket(attrs, m, "today_actual"), x, y)
            /\ x > now =>
                  PointsOf(series[m], x, y, "predicted")
                    = PairsOf(m, Bucket(attrs, m, "today_predicted"), x, y)
                      + PairsOf(m, Bucket(attrs, m, "tomorrow_predicted"), x, y)

\* The entries of the buckets of metric m of the given kind.
EntriesOf(m, kind) ==
    IF kind = "actual"
    THEN Bucket(attrs, m, "yesterday_actual") \o Bucket(attrs, m, "today_actual")
    ELSE Bucket(attrs, m, "today_predicted") \o Bucket(attrs, m, "tomorrow_predicted")

\* C12: every point of the consumption series carries the absolute value of
\* the reading of an entry of its bucket (so it is never negative), for
\* actual and predicted buckets alike; every point of the battery and of the
\* solar series carries the reading of its entry as it is.
C12_ConsumptionMagnitude ==
    op = "prepared" =>
        /\ \A i \in 1..Len(series.consumption) :
              LET p == series.consumption[i]
                  b == EntriesOf("consumption", p.kind)
              IN  /\ p.y >= 0
                  /\ \E j \in 1..Len(b) :
                        DateParse(b[j][1]) = p.x /\ p.y = Abs(b[j][2])
        /\ \A m \in {"battery", "solar"} : \A i \in 1..Len(series[m]) :
              LET p == series[m][i]
                  b == EntriesOf(m, p.kind)
              IN  \E j \in 1..Len(b) : DateParse(b[j][1]) = p.x /\ p.y = b[j][2]

\* C12 witness: negative readings of an actual and of a predicted bucket have
\* been merged: the consumption series shows them as 1, the solar and the
\* battery series as -1.
C12_Witness ==
    /\ op = "prepared"
    /\ \E i, j \in 1..Len(series.consumption) :
          /\ series.consumption[i].kind = "actual" /\ series.consumption[i].y = 1
          /\ series.consumption[j].kind = "predicted" /\ series.consumption[j].y = 1
    /\ \E i, j \in 1..Len(series.solar) :
          /\ series.solar[i].kind = "actual" /\ series.solar[i].y = -1
          /\ series.solar[j].kind = "predicted" /\ series.solar[j].y = -1
    /\ \E i \in 1..Len(series.battery) : series.battery[i].y = -1

\* Every bucket (array of hours) of the family is empty, missing or undefined
\* in the attributes.
NoBucket(family, names) ==
    \A b \in names :
        <<family, b>> \in DOMAIN attrs => attrs[<<family, b>>] = <<>>

\* C13: when every bucket of a metric is empty or missing, prepareSeries
\* completes and the merge of that metric is the empty series; likewise the
\* charging series when both arrays of charging hours are empty or missing.
C13_EmptyBucketsEmptySeries ==
    op = "prepared" =>
        /\ \A m \in Metrics : NoBucket(m, BucketNames) => series[m] = <<>>
        /\ NoBucket("charging", ChargingNames) => series.charging = <<>>

\* C13 witness: the attributes have none of the bucket names of the three
\* metrics (only charging hours), and the three merges returned [].
C13_Witness ==
    /\ op = "prepared"
    /\ \A m \in Metrics : \A b \in BucketNames : <<m, b>> \notin DOMAIN attrs
    /\ <<"battery_config", "max_capacity_kwh">> \notin DOMAIN attrs
    /\ series.battery = <<>> /\ series.solar = <<>> /\ series.consumption = <<>>
    /\ series.charging # <<>>

\* The merge as it is when every `new Date()` read of it returns instant n.
MergeAt(a, n) ==
    PrepareSeriesData(a, [j \in 1..ReadsBattery(a) |-> n],
                         [j \in 1..ReadsSolar(a) |-> n],
                         [j \in 1..ReadsConsumption(a) |-> n])

\* C25 (as claimed): the series prepareSeries gets are those of the buckets
\* and of one instant: there is one now against which every predicted point of
\* the merge was compared, so that merging the same buckets at the same now
\* gives the same series.
C25_FunctionOfOneNow ==
    op = "prepared" => \E n \in 0..(Now + 2) : series = MergeAt(attrs, n)

\* ---------------------------------------------------------------- dashboard

\* What URLSearchParams.get returns: null for an absent parameter, else its
\* text (possibly empty).
Params == {"null", "", "id"}
Truthy(v) == v \notin {"null", ""}

\* `if (!this.entryId || !this.inverterSn) throw ...`
MissingParamsEntryOnly(e, sn) == ~Truthy(e)
MissingParams(e, sn) == ~Truthy(e) \/ ~Truthy(sn)

\* What getSensorData resolves to.  It never rejects: the error of
\* getDirectSensorData (no connection and no token, response not ok, a
\* rejected request) is caught and null returned; states.find gives undefined
\* for an unknown entity ("null" stands for both, and for a state without
\* attributes, on which the render functions return at once).  "empty":
\* attributes without the data of the chart; "data": attributes with data.
SensorResults == {"null", "empty", "data"}

\* Where a render function throws: building the options (battery: an entry of
\* timeline_data the code cannot format), `new ApexCharts(...)`, or render().
ThrowAts == {"none", "options", "construct", "render"}
ThrowAtsOf(name) == IF name = "battery" THEN ThrowAts ELSE ThrowAts \ {"options"}

\* A run of loadAndRenderCharts up to its first await: the battery sensor's
\* getSensorData is under way.
NewCycle(dead) ==
    [pc |-> "battery", res |-> NoResults, threw |-> NoThrows,
     afterDestroy |-> dead]

\* The dashboard state the operators below transform.
DashState ==
    [dashInit |-> dashInit, updateInterval |-> updateInterval,
     timerActive |-> timerActive, cycles |-> cycles,
     lastFinished |-> lastFinished, charts |-> charts,
     instances |-> instances, region |-> region]

\* The render function gets past its early returns: renderBatteryChart
\* returns when timeline_data is empty (after writing the placeholder), all
\* three return when the state has no attributes.
BuildsChart(name, data) ==
    \/ data = "data"
    \/ data = "empty" /\ name # "battery"

\* `if (this.charts[name]) this.charts[name].destroy();`
DestroyHeldNot(D, name) == D
DestroyHeld(D, name) ==
    IF D.charts[name] # 0
    THEN [D EXCEPT !.instances[name][D.charts[name]].live = FALSE]
    ELSE D

\* renderBatteryChart / renderSolarChart / renderSpotPricesChart(sensorData),
\* called by run c; throwAt says where (if at all) the function throws.
RenderChart(D, name, c, data, throwAt, dead) ==
    IF data = "null" THEN D
    ELSE IF ~BuildsChart(name, data)
    THEN [D EXCEPT !.region[name] = "nodata"]
    ELSE LET D0 == [D EXCEPT !.cycles[c].threw[name] = throwAt]
             D1 == DestroyHeld(D0, name)
             D2 == [D1 EXCEPT
                      !.instances[name] = Append(@, [cycle |-> c, live |-> TRUE,
                                                     afterDestroy |-> dead]),
                      !.charts[name] = Len(D1.instances[name]) + 1]
         IN  CASE throwAt = "options"   -> D0
               [] throwAt = "construct" -> D1
               [] throwAt = "render"    -> D2
               [] OTHER                 -> [D2 EXCEPT !.region[name] = "chart"]

\* loadAndRenderCharts returns (its promise resolves: every error is caught).
\* When it is the load init() awaits, init goes on and sets the interval.
FinishCycle(D, c) ==
    LET D1 == [D EXCEPT !.cycles[c].pc = "done",
                        !.cycles[c].res = NoResults,
                        !.cycles[c].threw = NoThrows,
                        !.lastFinished = [cycle |-> c, res |-> D.cycles[c].res,
                                          threw |-> D.cycles[c].threw]]
    IN  IF c = 1 /\ D.dashInit = "awaiting"
        THEN [D1 EXCEPT !.dashInit = "done",
                        !.updateInterval = "set",
                        !.timerActive = TRUE]
        ELSE D1

\* loadAndRenderCharts after both forecast sensors were read: the two
\* `if (data) render(data)` and the start of the spot price read.  An error
\* thrown by a render function is caught by the outer try: the run ends.
AfterSolar(D, c, tb, ts, dead) ==
    LET D1 == IF D.cycles[c].res.battery # "null"
              THEN RenderChart(D, "battery", c, D.cycles[c].res.battery, tb, dead)
              ELSE D
        D2 == IF D.cycles[c].res.solar # "null"
              THEN RenderChart(D1, "solar", c, D.cycles[c].res.solar, ts, dead)
              ELSE D1
    IN  IF D1.cycles[c].threw.battery # "none" THEN FinishCycle(D1, c)
        ELSE IF D2.cycles[c].threw.solar # "none" THEN FinishCycle(D2, c)
        ELSE [D2 EXCEPT !.cycles[c].pc = "prices"]

\* loadAndRenderCharts after the spot price read: the inner try/catch.
AfterPrices(D, c, tp, dead) ==
    LET D1 == IF D.cycles[c].res.prices # "null"
              THEN RenderChart(D, "prices", c, D.cycles[c].res.prices, tp, dead)
              ELSE D
    IN  FinishCycle(IF D1.cycles[c].threw.prices # "none"
                    THEN [D1 EXCEPT !.region.prices = "unavailable"]
                    ELSE D1,
                    c)

DashCommit(D) ==
    /\ dashInit' = D.dashInit
    /\ updateInterval' = D.updateInterval
    /\ timerActive' = D.timerActive
    /\ cycles' = D.cycles
    /\ lastFinished' = D.lastFinished
    /\ charts' = D.charts
    /\ instances' = D.instances
    /\ region' = D.region

\* ------------------------------------------------------- dashboard: actions

\* init(): throws on a missing parameter, else starts the first load and
\* awaits it.
DashboardInit ==
    /\ dashInit = "constructed"
    /\ IF MissingParams(entryId, inverterSn)
       THEN DashCommit([DashState EXCEPT !.dashInit = "failed"])
       ELSE DashCommit([DashState EXCEPT
                          !.dashInit = "awaiting",
                          !.cycles = Append(@, NewCycle(destroyed))])
    /\ UNCHANGED <<entryId, inverterSn, destroyed, loaderVars, mergeVars,
                   renderVars, bridgeVars, cardVars>>

\* The setInterval callback: loadAndRenderCharts() is called, not awaited.
IntervalTick ==
    /\ timerActive
    /\ Len(cycles) < MaxCycles
    /\ DashCommit([DashState EXCEPT !.cycles = Append(@, NewCycle(destroyed))])
    /\ UNCHANGED <<entryId, inverterSn, destroyed, loaderVars, mergeVars,
                   renderVars, bridgeVars, cardVars>>

\* The getSensorData run c awaits returns `result`; the run goes on to its
\* next await or to its end.  t1 says where renderBatteryChart throws and t2
\* where renderSolarChart or renderSpotPricesChart does ("none" for a
\* function that is not called in this step or returns early).  The render
\* functions name the global ApexCharts without a test: while the library is
\* absent, `new ApexCharts(...)` throws a ReferenceError.
GetSensorDataReturns(c, result, t1, t2) ==
    /\ c \in 1..Len(cycles)
    /\ cycles[c].pc # "done"
    /\ t1 # "none" => /\ cycles[c].pc = "solar"
                      /\ BuildsChart("battery", cycles[c].res.battery)
    /\ t2 # "none" => /\ cycles[c].pc \in {"solar", "prices"}
                      /\ BuildsChart(cycles[c].pc, result)
                      /\ t1 = "none"
    /\ ~present =>
          /\ (cycles[c].pc = "solar" /\ BuildsChart("battery", cycles[c].res.battery))
                => t1 \in {"options", "construct"}
          /\ (cycles[c].pc \in {"solar", "prices"} /\ BuildsChart(cycles[c].pc, result)
                /\ t1 = "none")
                => t2 = "construct"
    /\ LET name == cycles[c].pc
           D    == [DashState EXCEPT !.cycles[c].res[name] = result]
       IN  CASE name = "battery" -> DashCommit([D EXCEPT !.cycles[c].pc = "solar"])
             [] name = "solar"   -> DashCommit(AfterSolar(D, c, t1, t2, destroyed))
             [] OTHER            -> DashCommit(AfterPrices(D, c, t2, destroyed))
    /\ UNCHANGED <<entryId, inverterSn, destroyed, loaderVars, mergeVars,
                   renderVars, bridgeVars, cardVars>>

\* destroy(): clearInterval when an interval id is stored, destroy() of every
\* chart in this.charts.
Destroy ==
    /\ ~destroyed
    /\ destroyed' = TRUE
    /\ timerActive' = IF updateInterval # "null" THEN FALSE ELSE timerActive
    /\ instances' = [n \in ChartNames |->
                        [i \in 1..Len(instances[n]) |->
                            IF charts[n] = i
                            THEN [instances[n][i] EXCEPT !.live = FALSE]
                            ELSE instances[n][i]]]
    /\ UNCHANGED <<entryId, inverterSn, dashInit, updateInterval, cycles,
                   lastFinished, charts, region, loaderVars, mergeVars,
                   renderVars, bridgeVars, cardVars>>

\* ------------------------------------------------- dashboard: specification

\* `new OigCloudDashboard()` for a page URL with or without its parameters.
\* The dashboard never calls ApexChartsLoader: whether window.ApexCharts is
\* defined when it runs is up to the page.
DashSpecInit ==
    /\ loaderClass = "cdnonly"
    /\ loadStrategy = "none"
    /\ present \in BOOLEAN
    /\ scripts = [c \in Calls |-> <<>>]
    /\ callState = [c \in Calls |-> "idle"]
    /\ callIdx = [c \in Calls |-> 0]
    /\ callErr = [c \in Calls |-> NoError]
    /\ attempted = [c \in Calls |-> <<>>]
    /\ arrivedDuring = [c \in Calls |-> {}]
    /\ MergeIdle
    /\ RenderIdle
    /\ BridgeIdle
    /\ CardIdle
    /\ entryId \in Params
    /\ inverterSn \in Params
    /\ dashInit = "constructed"
    /\ updateInterval = "null"
    /\ timerActive = FALSE
    /\ destroyed = FALSE
    /\ cycles = <<>>
    /\ lastFinished = NoneFinished
    /\ charts = [n \in ChartNames |-> 0]
    /\ instances = [n \in ChartNames |-> <<>>]
    /\ region = [n \in ChartNames |-> "blank"]

Runs == 1..MaxCycles

DashNext ==
    \/ DashboardInit
    \/ IntervalTick
    \/ \E c \in Runs, result \in SensorResults, t1 \in ThrowAts, t2 \in ThrowAtsOf("solar") :
          GetSensorDataReturns(c, result, t1, t2)
    \/ Destroy

DashSpec == DashSpecInit /\ [][DashNext]_vars

\* -------------------------------------------------------- dashboard: claims

\* The instance this.charts holds under name n.
Held(n) == instances[n][charts[n]]

\* C14 (as claimed): the chart held under each name was created by the most
\* recently started of the runs that have rendered that chart: a run started
\* earlier never replaces the chart of a run started later.
C14_LatestCycleShown ==
    \A n \in ChartNames :
        charts[n] # 0 =>
            \A i \in 1..Len(instances[n]) : instances[n][i].cycle <= Held(n).cycle

\* C15 (as claimed): no run of loadAndRenderCharts starts after destroy().
C15_NoCycleAfterDestroy ==
    \A c \in 1..Len(cycles) : ~cycles[c].afterDestroy

\* C16 (as claimed): a run that was under way when destroy() was called
\* creates no chart instance afterwards.
C16_NoRenderAfterDestroy ==
    \A n \in ChartNames : \A i \in 1..Len(instances[n]) :
        ~(instances[n][i].afterDestroy /\ ~cycles[instances[n][i].cycle].afterDestroy)

\* C17: for each chart name at most one instance is not destroyed, and it is
\* the one this.charts holds: every instance that was replaced has been
\* destroyed.
C17_OneLiveInstance ==
    \A n \in ChartNames : \A i \in 1..Len(instances[n]) :
        instances[n][i].live => i = charts[n]

\* C17 witness: over three refresh cycles the battery chart was created three
\* times; the first two instances are destroyed, the third is held and live.
C17_Witness ==
    /\ Len(instances.battery) = 3
    /\ charts.battery = 3
    /\ instances.battery[3].live
    /\ ~instances.battery[1].live /\ ~instances.battery[2].live
    /\ instances.battery[1].cycle # instances.battery[3].cycle

\* C18: with entry_id or inverter_sn missing, init() never gets past its
\* check: it fails, and no run of loadAndRenderCharts (hence no sensor read)
\* is started, no chart created or region written, no interval set; charts
\* and updateInterval are as the constructor left them.
C18_MissingParamsFailFast ==
    (entryId \in {"null", ""} \/ inverterSn \in {"null", ""}) =>
        /\ dashInit \in {"constructed", "failed"}
        /\ cycles = <<>>
        /\ charts = [n \in ChartNames |-> 0]
        /\ instances = [n \in ChartNames |-> <<>>]
        /\ region = [n \in ChartNames |-> "blank"]
        /\ updateInterval = "null"
        /\ ~timerActive

\* C18 witness: init() has failed on a URL with entry_id and no inverter_sn.
C18_Witness ==
    /\ dashInit = "failed"
    /\ Truthy(entryId)
    /\ inverterSn = "null"

\* C19 (as claimed): in the run that returned last, every chart whose sensor
\* gave data and whose own render function did not throw has been created by
\* that run, whatever happened to the other charts.
C19_IndependentCharts ==
    lastFinished.cycle # 0 =>
        \A n \in ChartNames :
            (BuildsChart(n, lastFinished.res[n]) /\ lastFinished.threw[n] = "none")
            => \E i \in 1..Len(instances[n]) :
                  instances[n][i].cycle = lastFinished.cycle

\* C20 (as claimed): when a run returns, the region of every chart whose
\* sensor read failed or gave no data shows the 'no data' placeholder.
C20_PlaceholderOnNoData ==
    [][lastFinished'.cycle # lastFinished.cycle =>
          \A n \in ChartNames :
              lastFinished'.res[n] \in {"null", "empty"} => region'[n] = "nodata"]_vars

\* The render function of chart n got to its `new ApexCharts(...)`: it
\* threw there or later, or made the instance.
ReachedNew(threw, n) == threw[n] \in {"construct", "render"}

\* C24 (as claimed): no chart is constructed while the charting library is
\* absent: on a page where window.ApexCharts is not defined no run of the
\* dashboard gets to `new ApexCharts`, and no instance exists.
C24_NoChartWithoutLibrary ==
    ~present =>
        \A n \in ChartNames :
            /\ instances[n] = <<>>
            /\ ~ReachedNew(lastFinished.threw, n)
            /\ \A c \in 1..Len(cycles) : ~ReachedNew(cycles[c].threw, n)

\* ------------------------------------------------- dashboard: chart specs

\* A point of attrs.timeline_data.  spot_price_czk is a number, null, or
\* missing from the point (undefined); timestamps are instants.
SpotPrices ==
    {[kind |-> "null", value |-> 0], [kind |-> "undefined", value |-> 0],
     [kind |-> "number", value |-> 3]}
TimelinePoints ==
    [timestamp : 1..MaxTimeline, spot_price_czk : SpotPrices, is_charging : BOOLEAN]
Timelines ==
    {tl \in UNION {[1..k -> TimelinePoints] : k \in 0..MaxTimeline} :
        \A j \in 1..Len(tl) : tl[j].timestamp = j}

\* `attrs.<name> || {}` of the render functions
OrEmpty(v) == IF v.defined THEN v.entries ELSE <<>>

\* The scaling of a spot price to the capacity axis: `y: price * 2`
PriceScale == 2

\* `if (point.spot_price_czk !== null) spotPrices.push([timestamp, price])`
HasSpotPrice(p) == p.spot_price_czk.kind # "null"

\* spotPrices.map(([timestamp, price]) => ({x, y: price * 2, label:
\* price.toFixed(1)})): price.toFixed throws a TypeError for undefined.
Annotate(sp) ==
    [j \in 1..Len(sp) |->
        [x |-> sp[j].timestamp, y |-> sp[j].spot_price_czk.value * PriceScale]]

\* `isDark ? dark colours : light colours`
Palette(isDark) == IF isDark THEN "dark" ELSE "light"

\* The options renderBatteryChart builds from a timeline that is not empty,
\* or the error it throws.
BatteryOptions(tl, theme) ==
    LET spotPrices == SelectSeq(tl, HasSpotPrice)
    IN  IF \E j \in 1..Len(spotPrices) : spotPrices[j].spot_price_czk.kind = "undefined"
        THEN [error |-> "TypeError", options |-> NoChart]
        ELSE [error |-> "none",
              options |->
                [series |-> << [name |-> "FVE Vyroba",
                                data |-> [j \in 1..Len(tl) |-> tl[j].timestamp]],
                               [name |-> "Kapacita baterie",
                                data |-> [j \in 1..Len(tl) |-> tl[j].timestamp]],
                               [name |-> "Nabijeni",
                                data |-> LET ch == SelectSeq(tl, LAMBDA p : p.is_charging)
                                         IN  [j \in 1..Len(ch) |-> ch[j].timestamp]] >>,
                 annotations |-> Annotate(spotPrices),
                 palette |-> Palette(theme = "dark")]]

\* An hourly map of the solar forecast ("HH:00" -> kW), and the instant
\* renderSolarChart gives a key: today's (tomorrow's) date at that hour.
HourlyMaps ==
    {[defined |-> FALSE, entries |-> <<>>], [defined |-> TRUE, entries |-> <<>>],
     [defined |-> TRUE, entries |-> << <<"08:00", 2>> >>]}
HourOf(time) == IF time = "08:00" THEN 8 ELSE 14
HourlyData(map, dayOffset) ==
    [j \in 1..Len(map) |-> <<24 * dayOffset + HourOf(map[j][1]), map[j][2]>>]

\* The options renderSolarChart builds.
SolarOptions(today, tomorrow) ==
    [series |-> << [name |-> "Dnes", data |-> HourlyData(OrEmpty(today), 0)],
                   [name |-> "Zitra", data |-> HourlyData(OrEmpty(tomorrow), 1)] >>,
     annotations |-> <<>>,
     palette |-> "default"]

\* attrs.prices_czk_kwh, and the options renderSpotPricesChart builds.
PriceMaps ==
    {[defined |-> FALSE, entries |-> <<>>], [defined |-> TRUE, entries |-> <<>>],
     [defined |-> TRUE, entries |-> << <<"01:00Z", 2>> >>]}
PricesOptions(prices) ==
    [series |-> << [name |-> "Cena (CZK/kWh)",
                    data |-> [j \in 1..Len(OrEmpty(prices)) |->
                                <<DateParse(OrEmpty(prices)[j][1]), OrEmpty(prices)[j][2]>>]] >>,
     annotations |-> <<>>,
     palette |-> "default"]

\* The option keys of commonThemeOptions.
VisualKeys ==
    {"chart.background", "chart.foreColor", "grid.borderColor",
     "xaxis.labels.style.colors", "yaxis.labels.style.colors",
     "legend.labels.colors"}

\* `const isDark = theme === 'dark'`
IsDarkUnlessLight(theme) == theme # "light"
IsDark(theme) == theme = "dark"

\* commonThemeOptions of updateChartThemes(theme); `theme` is history.
CommonThemeOptions(theme) ==
    [keys |-> VisualKeys, palette |-> Palette(IsDark(theme)), theme |-> theme]

NextOp(fn, input) == [fn |-> fn, input |-> input, n |-> renderOp.n + 1]

\* renderBatteryChart(sensorData) with attributes: the placeholder for an
\* empty timeline, else the options and the new chart.
RenderBatteryChart(tl) ==
    /\ renderOp.n < MaxRenderOps
    /\ renderOp' = NextOp("battery", tl)
    /\ LET b == BatteryOptions(tl, pageTheme)
       IN  IF tl = <<>>
           THEN buildError' = "none" /\ chartSpecs' = chartSpecs
           ELSE IF b.error # "none"
           THEN buildError' = b.error /\ chartSpecs' = chartSpecs
           ELSE /\ buildError' = "none"
                /\ chartSpecs' = [chartSpecs EXCEPT !.battery = b.options]
    /\ UNCHANGED <<pageTheme, passed, loaderVars, mergeVars, dashVars, bridgeVars, cardVars>>

\* renderSolarChart(sensorData) with attributes.
RenderSolarChart(today, tomorrow) ==
    /\ renderOp.n < MaxRenderOps
    /\ renderOp' = NextOp("solar", <<today, tomorrow>>)
    /\ buildError' = "none"
    /\ chartSpecs' = [chartSpecs EXCEPT !.solar = SolarOptions(today, tomorrow)]
    /\ UNCHANGED <<pageTheme, passed, loaderVars, mergeVars, dashVars, bridgeVars, cardVars>>

\* renderSpotPricesChart(sensorData) with attributes.
RenderSpotPricesChart(prices) ==
    /\ renderOp.n < MaxRenderOps
    /\ renderOp' = NextOp("prices", <<prices>>)
    /\ buildError' = "none"
    /\ chartSpecs' = [chartSpecs EXCEPT !.prices = PricesOptions(prices)]
    /\ UNCHANGED <<pageTheme, passed, loaderVars, mergeVars, dashVars, bridgeVars, cardVars>>

\* updateChartThemes(theme): chart.updateOptions(commonThemeOptions) on every
\* chart of this.charts; updateOptions merges the options it is given into
\* those of the chart.
UpdateChartThemes(theme) ==
    /\ renderOp.n < MaxRenderOps
    /\ renderOp' = NextOp("themes", <<theme>>)
    /\ buildError' = "none"
    /\ chartSpecs' = [n \in ChartNames |->
                        IF chartSpecs[n] = NoChart THEN NoChart
                        ELSE [chartSpecs[n] EXCEPT
                                !.palette = CommonThemeOptions(theme).palette]]
    /\ passed' = [n \in ChartNames |->
                    IF chartSpecs[n] = NoChart THEN passed[n]
                    ELSE CommonThemeOptions(theme)]
    /\ UNCHANGED <<pageTheme, loaderVars, mergeVars, dashVars, bridgeVars, cardVars>>

Themes == {"dark", "light", "auto"}

RenderInit ==
    /\ LoaderIdle
    /\ MergeIdle
    /\ DashIdle
    /\ BridgeIdle
    /\ CardIdle
    /\ pageTheme \in {"dark", "light"}
    /\ chartSpecs = [n \in ChartNames |-> NoChart]
    /\ passed = [n \in ChartNames |-> NotPassed]
    /\ buildError = "none"
    /\ renderOp = [fn |-> "none", input |-> <<>>, n |-> 0]

RenderNext ==
    \/ \E tl \in Timelines : RenderBatteryChart(tl)
    \/ \E today \in HourlyMaps, tomorrow \in HourlyMaps : RenderSolarChart(today, tomorrow)
    \/ \E prices \in PriceMaps : RenderSpotPricesChart(prices)
    \/ \E theme \in Themes : UpdateChartThemes(theme)

RenderSpec == RenderInit /\ [][RenderNext]_vars

\* --------------------------------------------- dashboard: chart spec claims

\* C26 (as claimed): no series of the spec renderSolarChart hands to the
\* chart has empty data: the series of an absent or empty map is left out.
C26_EmptySeriesOmitted ==
    (renderOp.fn = "solar" /\ buildError = "none") =>
        \A j \in 1..Len(chartSpecs.solar.series) :
            chartSpecs.solar.series[j].data # <<>>

\* C27: updateChartThemes gives every chart of this.charts an options object
\* with visual keys only, in the dark palette exactly when the theme is
\* 'dark'; the call leaves the set of charts, their series and their
\* annotations as they were.
C27_ThemeOnlyVisual ==
    /\ [](\A n \in ChartNames :
            passed[n] # NotPassed =>
                /\ passed[n].keys \subseteq VisualKeys
                /\ passed[n].palette = "dark" <=> passed[n].theme = "dark"
                /\ passed[n].palette \in {"dark", "light"})
    /\ [][renderOp'.fn = "themes" =>
            \A n \in ChartNames :
                IF chartSpecs[n] = NoChart THEN chartSpecs'[n] = NoChart
                ELSE /\ chartSpecs'[n] # NoChart
                     /\ chartSpecs'[n].series = chartSpecs[n].series
                     /\ chartSpecs'[n].annotations = chartSpecs[n].annotations
                     /\ passed'[n].theme = renderOp'.input[1]]_vars

\* C27 witness: on a light page the battery chart (with data and an
\* annotation) and the solar chart were built, then updateChartThemes('dark')
\* was called: both charts got the dark palette.
C27_Witness ==
    /\ pageTheme = "light"
    /\ renderOp.fn = "themes" /\ renderOp.input = <<"dark">>
    /\ chartSpecs.battery # NoChart /\ chartSpecs.solar # NoChart
    /\ chartSpecs.prices = NoChart /\ passed.prices = NotPassed
    /\ Len(chartSpecs.battery.annotations) = 1
    /\ chartSpecs.battery.palette = "dark" /\ chartSpecs.solar.palette = "dark"
    /\ passed.battery.palette = "dark"

\* C28 (as claimed): renderBatteryChart builds its spec for every timeline
\* that is not empty, with one annotation per point that carries a spot price
\* (a number), at y = price x 2, in the order of the points; a point without
\* a spot price adds none.
C28_SpotPriceAnnotations ==
    (renderOp.fn = "battery" /\ renderOp.input # <<>>) =>
        /\ buildError = "none"
        /\ chartSpecs.battery # NoChart
        /\ LET priced == SelectSeq(renderOp.input,
                                   LAMBDA p : p.spot_price_czk.kind = "number")
           IN  chartSpecs.battery.annotations =
                  [j \in 1..Len(priced) |->
                      [x |-> priced[j].timestamp,
                       y |-> priced[j].spot_price_czk.value * 2]]

\* ------------------------------------------------------------------- bridge

\* event.data of a message event: its type ("nodata": event.data is null).
MessageTypes == {"get_sensor_data", "ha_state_update", "nodata"}
EntityIds == {"sensor.a", "sensor.b"}

\* event.source and event.origin of the frames that post to the bridge.
Frames == {"dashboard", "other"}
OriginOf(f) == IF f = "dashboard" THEN "https://ha.local" ELSE "https://other.example"

\* `if (event.data && event.data.type === 'get_sensor_data')`
WantsAnyData(type) == type # "nodata"
WantsSensorData(type) == type = "get_sensor_data"

\* window.hassConnection, and the hassTokens entry of the storage.
Connections == {"none", "ok"}
Tokens == {"none", "valid", "garbled"}

\* `throw new Error('Unable to authenticate with Home Assistant')`
UnableError == "Unable to authenticate with Home Assistant"

\* getEntityState(entityId) up to its first await: the request it awaits
\* ("connection": sendMessagePromise, "fetch"), or the error it throws at
\* once (no connection and no token; JSON.parse of a garbled token).
GetEntityState(conn, token) ==
    IF conn = "ok" THEN [await |-> "connection", error |-> "none"]
    ELSE IF token = "none" THEN [await |-> "none", error |-> UnableError]
    ELSE IF token = "garbled" THEN [await |-> "none", error |-> "SyntaxError"]
    ELSE [await |-> "fetch", error |-> "none"]

\* How the awaited request ends: with the state ("data"), rejected, or (fetch)
\* with a reply that is not ok.
OutcomesOf(via) ==
    IF via = "connection" THEN {"data", "rejected"} ELSE {"data", "rejected", "notok"}

\* The error getEntityState ends with for an outcome other than "data".
ErrorOf(outcome) == IF outcome = "notok" THEN UnableError ELSE "request failed"

\* The two messages the handler posts.
SensorDataResponse(entityId, data) ==
    [type |-> "sensor_data_response", entityId |-> entityId, data |-> data,
     error |-> "absent"]

ErrorResponseNoMessage(entityId, message) ==
    [type |-> "sensor_data_response", entityId |-> entityId, data |-> "null",
     error |-> "absent"]

ErrorResponse(entityId, message) ==
    [type |-> "sensor_data_response", entityId |-> entityId, data |-> "null",
     error |-> message]

\* event.source.postMessage(msg, event.origin) of the handler of request r.
PostMessage(box, r, rq, msg) ==
    Append(box, [to |-> rq.source, origin |-> rq.origin, msg |-> msg, req |-> r])

\* A message event arrives and the handler runs up to its await, or to its
\* end when it does not await: another type is ignored, an error thrown at
\* once by getEntityState is caught and answered.
ReceiveMessage(type, entityId, source, conn, token) ==
    /\ Len(requests) < MaxRequests
    /\ ~WantsSensorData(type) => entityId = "sensor.a" /\ conn = "none" /\ token = "none"
    /\ LET r  == Len(requests) + 1
           g  == GetEntityState(conn, token)
           rq == [type |-> type, entityId |-> entityId, source |-> source,
                  origin |-> OriginOf(source), state |-> "done", via |-> "none",
                  failure |-> "none"]
       IN  IF ~WantsSensorData(type)
           THEN /\ requests' = Append(requests, rq)
                /\ outbox' = outbox
           ELSE IF g.await # "none"
           THEN /\ requests' = Append(requests, [rq EXCEPT !.state = "awaiting",
                                                          !.via = g.await])
                /\ outbox' = outbox
           ELSE /\ requests' = Append(requests, [rq EXCEPT !.failure = g.error])
                /\ outbox' = PostMessage(outbox, r, rq, ErrorResponse(entityId, g.error))
    /\ UNCHANGED <<loaderVars, mergeVars, dashVars, renderVars, cardVars>>

\* The request getEntityState awaits for request r ends; the handler posts
\* the response or, from its catch block, the error response.
EntityStateSettles(r, outcome) ==
    /\ r \in 1..Len(requests)
    /\ requests[r].state = "awaiting"
    /\ outcome \in OutcomesOf(requests[r].via)
    /\ IF outcome = "data"
       THEN /\ outbox' = PostMessage(outbox, r, requests[r],
                                     SensorDataResponse(requests[r].entityId, "state"))
            /\ requests' = [requests EXCEPT ![r].state = "done"]
       ELSE /\ outbox' = PostMessage(outbox, r, requests[r],
                                     ErrorResponse(requests[r].entityId, ErrorOf(outcome)))
            /\ requests' = [requests EXCEPT ![r].state = "done",
                                            ![r].failure = ErrorOf(outcome)]
    /\ UNCHANGED <<loaderVars, mergeVars, dashVars, renderVars, cardVars>>

\* `new HABridge()` in the parent window.
BridgeInit ==
    /\ LoaderIdle
    /\ MergeIdle
    /\ DashIdle
    /\ RenderIdle
    /\ CardIdle
    /\ BridgeIdle

BridgeNext ==
    \/ \E type \in MessageTypes, entityId \in EntityIds, source \in Frames,
          conn \in Connections, token \in Tokens :
          ReceiveMessage(type, entityId, source, conn, token)
    \/ \E r \in 1..MaxRequests, outcome \in {"data", "rejected", "notok"} :
          EntityStateSettles(r, outcome)

BridgeSpec == BridgeInit /\ [][BridgeNext]_vars

\* ----------------------------------------------------------- bridge: claims

\* The messages posted in answer to request r.
AnswersTo(r) == {i \in 1..Len(outbox) : outbox[i].req = r}

NewRun(k, retry) ==
    [card |-> k, pc |-> "script", retry |-> retry, call |-> 0,
     loaderAtResolve |-> "na", outcome |-> "none"]

\* The card state the operators below transform.
CardState ==
    [loaderScript |-> loaderScript, loaderDefined |-> loaderDefined,
     runs |-> runs, view |-> view, cardCharts |-> cardCharts, hass |-> hass]

\* What `window.ApexChartsLoader` is for a continuation that runs now.
LoaderNow(K) == IF K.loaderDefined THEN "defined" ELSE "undefined"

\* render(): shadowRoot.innerHTML is written anew, with an empty #chart; a
\* chart drawn in the old #chart is neither destroyed nor forgotten.
Render(K, k) == [K EXCEPT !.view[k] = "blank"]

\* showLoading / showError write #chart, which exists once render() has run.
ShowLoading(K, k) == [K EXCEPT !.view[k] = "loading"]

ShowErrorKeepsLoading(K, k) == K
ShowError(K, k) == [K EXCEPT !.view[k] = "error"]

\* updateChart(): returns unless this.chart and this._hass are set, else
\* chart.updateSeries(...) on this.chart (the entity of the card's config is
\* taken to be among hass.states).
UpdateChart(K, k) ==
    IF K.cardCharts[k] # <<>> /\ K.hass[k]
    THEN [K EXCEPT !.cardCharts[k][Len(K.cardCharts[k])].series = TRUE]
    ELSE K

\* initChart(), with window.ApexCharts being lib.
InitChart(K, k, lib) ==
    IF ~lib THEN K
    ELSE UpdateChart([K EXCEPT
                        !.cardCharts[k] = Append(@, [live |-> TRUE, series |-> FALSE]),
                        !.view[k] = "chart"],
                     k)

\* loadChartsLibrary returns: its promise resolves, every error is caught.
EndRun(K, r, outcome) ==
    [K EXCEPT !.runs[r].pc = "done", !.runs[r].outcome = outcome]

\* Run r at `await window.ApexChartsLoader.load()`, the promise of load()
\* being in `state`: pending, the run waits; resolved, initChart(); rejected,
\* the catch block.
AfterLoad(K, r, state, lib) ==
    LET k == K.runs[r].card
    IN  CASE state = "resolved" ->
               EndRun(InitChart(K, k, lib), r, IF lib THEN "chart" ELSE "nochart")
          [] state = "rejected" ->
               EndRun(ShowError(K, k), r, "load-rejected")
          [] OTHER -> [K EXCEPT !.runs[r].pc = "load"]

CardCommit(K) ==
    /\ loaderScript' = K.loaderScript
    /\ loaderDefined' = K.loaderDefined
    /\ runs' = K.runs
    /\ view' = K.view
    /\ cardCharts' = K.cardCharts
    /\ hass' = K.hass

\* loadChartsLibrary from showLoading on (the loadScript it may have awaited
\* has resolved): window.ApexChartsLoader.load() is a call of load() of the
\* loader, or a TypeError when the loader is undefined.
AfterScript(K, r) ==
    LET k  == K.runs[r].card
        K1 == ShowLoading(K, k)
    IN  IF K.loaderDefined
        THEN \E c \in Calls :
                /\ LoadStep(c)
                /\ CardCommit(AfterLoad([K1 EXCEPT !.runs[r].call = c], r,
                                        callState'[c], present'))
        ELSE /\ CardCommit(EndRun(ShowError(K1, k), r, "no-loader"))
             /\ UNCHANGED loaderVars

\* loadChartsLibrary() of card k up to its first await that waits.
\* loadScript resolves at once when a script element with the src of the
\* loader script is in the document, else appends one.
LoadChartsLibrary(K, k, retry) ==
    LET r  == Len(K.runs) + 1
        K0 == [K EXCEPT !.runs = Append(@, NewRun(k, retry))]
    IN  IF K.loaderDefined
        THEN AfterScript(K0, r)
        ELSE IF K.loaderScript # "none"
        THEN AfterScript([K0 EXCEPT !.runs[r].loaderAtResolve = LoaderNow(K0)], r)
        ELSE /\ CardCommit([K0 EXCEPT !.loaderScript = "loading"])
             /\ UNCHANGED loaderVars

\* ------------------------------------------------------------ card: actions

\* connectedCallback(): render(), then loadChartsLibrary() (not awaited).
\* The browser calls it every time the element is put into a document.
ConnectedCallback(k) ==
    /\ Len(runs) < MaxCalls
    /\ LoadChartsLibrary(Render(CardState, k), k, FALSE)
    /\ UNCHANGED <<mergeVars, dashVars, renderVars, bridgeVars>>

\* A click on the button showError wrote: host.loadChartsLibrary().
Retry(k) ==
    /\ Len(runs) < MaxCalls
    /\ view[k] = "error"
    /\ LoadChartsLibrary(CardState, k, TRUE)
    /\ UNCHANGED <<mergeVars, dashVars, renderVars, bridgeVars>>

\* set hass(hass): stores it and calls updateChart().
SetHass(k) ==
    /\ CardCommit(UpdateChart([CardState EXCEPT !.hass[k] = TRUE], k))
    /\ UNCHANGED <<loaderVars, mergeVars, dashVars, renderVars, bridgeVars>>

\* The loader script has been fetched and run (it ends with
\* `window.ApexChartsLoader = ApexChartsLoader`); script.onload resolves the
\* loadScript promise of the run that appended the element.
LoaderScriptOnLoad ==
    /\ loaderScript = "loading"
    /\ LET r == CHOOSE r \in 1..Len(runs) : runs[r].pc = "script"
           K == [CardState EXCEPT !.loaderScript = "loaded",
                                  !.loaderDefined = TRUE]
       IN  AfterScript([K EXCEPT !.runs[r].loaderAtResolve = LoaderNow(K)], r)
    /\ UNCHANGED <<mergeVars, dashVars, renderVars, bridgeVars>>

\* The fetch of the loader script fails: script.onerror rejects the promise;
\* the element stays in document.head.
LoaderScriptOnError ==
    /\ loaderScript = "loading"
    /\ LET r == CHOOSE r \in 1..Len(runs) : runs[r].pc = "script"
           K == [CardState EXCEPT !.loaderScript = "failed"]
       IN  CardCommit(EndRun(ShowError(K, K.runs[r].card), r, "script-failed"))
    /\ UNCHANGED <<loaderVars, mergeVars, dashVars, renderVars, bridgeVars>>

\* The promise of load call c has settled in this step: the run that awaits
\* it goes on.
Resume(c) ==
    LET waiting == {r \in 1..Len(runs) : runs[r].pc = "load" /\ runs[r].call = c}
    IN  IF waiting # {} /\ callState'[c] # "pending"
        THEN CardCommit(AfterLoad(CardState, CHOOSE r \in waiting : TRUE,
                                  callState'[c], present'))
        ELSE UNCHANGED cardVars

\* The events of the script elements of the library, on a page with cards.
LibraryOnLoad(c, s, defines) ==
    /\ ScriptOnLoadStep(c, s, defines)
    /\ Resume(c)
    /\ UNCHANGED <<mergeVars, dashVars, renderVars, bridgeVars>>

LibraryOnError(c, s) ==
    /\ ScriptOnErrorStep(c, s)
    /\ Resume(c)
    /\ UNCHANGED <<mergeVars, dashVars, renderVars, bridgeVars>>

LibraryTimeout(c, s) ==
    /\ ScriptTimeoutStep(c, s)
    /\ Resume(c)
    /\ UNCHANGED <<mergeVars, dashVars, renderVars, bridgeVars>>

\* ------------------------------------------------------ card: specification

\* A page with cards: the loader may have been defined by the page before
\* any card connects, and so may the library.
CardInit ==
    /\ \/ loaderClass = "universal" /\ loadStrategy \in {"local", "cdn", "auto"}
       \/ loaderClass = "cdnonly" /\ loadStrategy = "none"
    /\ present \in BOOLEAN
    /\ scripts = [c \in Calls |-> <<>>]
    /\ callState = [c \in Calls |-> "idle"]
    /\ callIdx = [c \in Calls |-> 0]
    /\ callErr = [c \in Calls |-> NoError]
    /\ attempted = [c \in Calls |-> <<>>]
    /\ arrivedDuring = [c \in Calls |-> {}]
    /\ MergeIdle
    /\ DashIdle
    /\ RenderIdle
    /\ BridgeIdle
    /\ loaderScript = "none"
    /\ loaderDefined \in BOOLEAN
    /\ runs = <<>>
    /\ view = [k \in Cards |-> "none"]
    /\ cardCharts = [k \in Cards |-> <<>>]
    /\ hass = [k \in Cards |-> FALSE]

CardNext ==
    \/ \E k \in Cards : ConnectedCallback(k)
    \/ \E k \in Cards : Retry(k)
    \/ \E k \in Cards : SetHass(k)
    \/ LoaderScriptOnLoad
    \/ LoaderScriptOnError
    \/ \E c \in Calls, s \in Elements, defines \in BOOLEAN : LibraryOnLoad(c, s, defines)
    \/ \E c \in Calls, s \in Elements : LibraryOnError(c, s)
    \/ \E c \in Calls, s \in Elements : LibraryTimeout(c, s)

CardSpec == CardInit /\ [][CardNext]_vars

\* -------------------------------------------------------------- card: claims

\* Run r ends in this step with the load() it called rejected.
LoadFailsFor(r) ==
    /\ runs'[r].pc = "done"
    /\ r > Len(runs) \/ runs[r].pc # "done"
    /\ runs'[r].call # 0
    /\ callState'[runs'[r].call] = "rejected"

\* This step is a click on the retry button of card k.
RetryOf(k) ==
    /\ Len(runs') = Len(runs) + 1
    /\ runs'[Len(runs')].retry
    /\ runs'[Len(runs')].card = k

\* C23: when the load() of a run of loadChartsLibrary is rejected (no source
\* gave the library), the run returns with the card showing the error view
\* (message and retry button) and no chart created; and a click on the retry
\* button of a card whose load was rejected makes a new call of load().
C23_LoadFailureShowsRetry ==
    [][/\ \A r \in 1..Len(runs') :
             LoadFailsFor(r)
             => /\ view'[runs'[r].card] = "error"
                /\ cardCharts' = cardCharts
       /\ \A k \in Cards :
             (/\ RetryOf(k)
              /\ \E r \in 1..Len(runs) :
                    runs[r].card = k /\ runs[r].outcome = "load-rejected")
             => /\ runs'[Len(runs')].call # 0
                /\ callState[runs'[Len(runs')].call] = "idle"
                /\ callState'[runs'[Len(runs')].call] # "idle"]_vars

C23_Witness ==
    \E r1, r2 \in 1..Len(runs) :
        /\ r1 < r2
        /\ runs[r1].card = runs[r2].card
        /\ runs[r1].outcome = "load-rejected"
        /\ callState[runs[r1].call] = "rejected"
        /\ view[runs[r1].card] = "loading"
        /\ runs[r2].retry
        /\ runs[r2].pc = "load"

\* C29 (as claimed): a card holds at most one chart that is not destroyed.
C29_OneLiveChartPerCard ==
    \A k \in Cards :
        Cardinality({i \in 1..Len(cardCharts[k]) : cardCharts[k][i].live}) <= 1

\* C30 (as claimed): whenever the loadScript of the loader script resolves,
\* window.ApexChartsLoader is defined.
C30_LoaderDefinedOnResolve ==
    \A r \in 1..Len(runs) : runs[r].loaderAtResolve # "undefined"

====
